---- MODULE Spec2Model ----
(***************************************************************************)
(* A model of graphql_server/__init__.py: run_http_query (request          *)
(* validation, parameter extraction, the asyncio.gather fan-out over       *)
(* get_response / execute_graphql_request) and encode_execution_results    *)
(* (format_execution_result, status aggregation, output shape).            *)
(*                                                                         *)
(* Python values are tagged records.  The graphql library (parse,          *)
(* validate, get_operation_ast, execute) is the environment: parse and     *)
(* validate are tables over the query texts of the model, execute is a     *)
(* nondeterministic choice of returning, raising an Exception, or          *)
(* suspending on I/O.  Exceptions that are not instances of Exception      *)
(* (KeyboardInterrupt, SystemExit) are outside the model.                  *)
(***************************************************************************)
EXTENDS Integers, Sequences, FiniteSets, TLC

\* Longest batch (list body) the model sends.
MaxBatch == 2

(***************************************************************************)
(* Python values                                                           *)
(***************************************************************************)
None == [t |-> "none"]
Str(s) == [t |-> "str", s |-> s]
\* A mapping, as its sequence of <<key, value>> pairs.
Dict(m) == [t |-> "dict", m |-> m]
Num(n) == [t |-> "int", n |-> n]
List(xs) == [t |-> "list", xs |-> xs]

\* bool(v): None, "", {}, 0 and [] are falsy.
Truthy(v) ==
    CASE v.t = "none" -> FALSE
      [] v.t = "str" -> v.s /= ""
      [] v.t = "dict" -> v.m /= <<>>
      [] v.t = "int" -> v.n /= 0
      [] v.t = "list" -> v.xs /= <<>>
      [] OTHER -> TRUE

\* a or b
Or(a, b) == IF Truthy(a) THEN a ELSE b

HttpQueryError(status_code, message, headers) ==
    [cls |-> "HttpQueryError", status_code |-> status_code,
     message |-> message, headers |-> headers]

GraphQLError(message) == [cls |-> "GraphQLError", message |-> message]
PlainException(message) == [cls |-> "Exception", message |-> message]

\* isinstance(e, Exception): every error class of the model derives from it.
IsException(e) == e.cls \in {"HttpQueryError", "GraphQLError", "Exception"}

GraphQLParams(query, variables, operation_name) ==
    [query |-> query, variables |-> variables, operation_name |-> operation_name]

GraphQLResponse(result, status_code) ==
    [result |-> result, status_code |-> status_code]

ExecutionResult(data, errors, invalid) ==
    [data |-> data, errors |-> errors, invalid |-> invalid]

\* What a called function did: returned a value or raised an exception.
Return(v) == [raised |-> FALSE, value |-> v]
Raise(e) == [raised |-> TRUE, exc |-> e]

(***************************************************************************)
(* The graphql library                                                     *)
(***************************************************************************)
OperationDefinition(name, operation) == [name |-> name, operation |-> operation]

QueryA == "{a}"
QueryM == "mutation{m}"
QueryS == "subscription{s}"
QueryAB == "query A{a} mutation B{m}"
QuerySyntax == "{"
QueryNoField == "{nofield}"
QueryMNoField == "mutation{nofield nofield2}"

\* The query texts the requests of the model carry.
QueryTexts ==
    {QueryA, QueryM, QueryS, QueryAB, QuerySyntax, QueryNoField, QueryMNoField}

\* parse(Source(query)): a document, or GraphQLSyntaxError.
parse(query) ==
    CASE query = QueryA ->
           Return([query |-> query,
                   definitions |-> <<OperationDefinition(None, "query")>>])
      [] query = QueryM ->
           Return([query |-> query,
                   definitions |-> <<OperationDefinition(None, "mutation")>>])
      [] query = QueryS ->
           Return([query |-> query,
                   definitions |-> <<OperationDefinition(None, "subscription")>>])
      [] query = QueryAB ->
           Return([query |-> query,
                   definitions |-> <<OperationDefinition(Str("A"), "query"),
                                     OperationDefinition(Str("B"), "mutation")>>])
      [] query = QueryNoField ->
           Return([query |-> query,
                   definitions |-> <<OperationDefinition(None, "query")>>])
      [] query = QueryMNoField ->
           Return([query |-> query,
                   definitions |-> <<OperationDefinition(None, "mutation")>>])
      [] OTHER -> Raise(GraphQLError("Syntax Error GraphQL request"))

\* validate(schema, ast): the validation errors, in order.
validate(ast) ==
    CASE ast.query = QueryNoField ->
           <<GraphQLError("Cannot query field nofield")>>
      [] ast.query = QueryMNoField ->
           <<GraphQLError("Cannot query field nofield"),
             GraphQLError("Cannot query field nofield2")>>
      [] OTHER -> <<>>

\* The loop of get_operation_ast over the definitions from index i on, with the
\* operation found so far.
RECURSIVE OperationScan(_, _, _, _)
OperationScan(definitions, operation_name, i, operation) ==
    IF i > Len(definitions) THEN operation
    ELSE IF ~Truthy(operation_name)
         THEN IF operation /= None THEN None
              ELSE OperationScan(definitions, operation_name, i + 1, definitions[i])
         ELSE IF Truthy(definitions[i].name) /\ definitions[i].name = operation_name
              THEN definitions[i]
              ELSE OperationScan(definitions, operation_name, i + 1, operation)

get_operation_ast(ast, operation_name) ==
    OperationScan(ast.definitions, operation_name, 1, None)

\* The data a successful execution resolves: it names the document, the
\* operation and the variables it was executed with.
ResolvedData(ast, operation_name, variable_values) ==
    Dict(<< <<"document", ast.query>>, <<"operationName", operation_name>>,
            <<"variables", variable_values>> >>)

\* What awaiting execute(schema, ast, operation_name, variable_values) can end
\* in.  With no operation to run (an unknown name, or no name among several
\* operations) the executor returns an invalid result; otherwise a full
\* result, a partial result (resolvers failed), or an exception.
ExecuteOutcomes(ast, operation_name, variable_values) ==
    IF get_operation_ast(ast, operation_name) = None
    THEN { Return(ExecutionResult(None, <<GraphQLError("Unknown operation")>>, TRUE)) }
    ELSE { Return(ExecutionResult(ResolvedData(ast, operation_name, variable_values),
                                  <<>>, FALSE)),
           Return(ExecutionResult(ResolvedData(ast, operation_name, variable_values),
                                  <<GraphQLError("resolver failed"),
                                    PlainException("resolver failed again")>>, FALSE)),
           Raise(PlainException("executor crashed")),
           Raise(HttpQueryError(400, "raised inside execute", None)) }

(***************************************************************************)
(* Parameter extraction                                                    *)
(***************************************************************************)
JsonA == "{\"a\":1}"
JsonEmpty == "{}"
JsonOne == "1"
JsonBad == "{bad"

\* json.loads(text) over the texts of the model; the empty string and
\* malformed text raise ValueError.
json_loads(text) ==
    CASE text = JsonA -> Return(Dict(<< <<"a", 1>> >>))
      [] text = JsonEmpty -> Return(Dict(<<>>))
      [] text = JsonOne -> Return(Num(1))
      [] OTHER -> Raise(PlainException("ValueError"))

\* A decoding failure ignored: the text goes on undecoded.
load_json_variables_lenient(variables) ==
    IF Truthy(variables) /\ variables.t = "str" /\ ~json_loads(variables.s).raised
    THEN Return(json_loads(variables.s).value)
    ELSE Return(variables)

\* Lines 112-118.
load_json_variables(variables) ==
    IF Truthy(variables) /\ variables.t = "str"
    THEN IF json_loads(variables.s).raised
         THEN Raise(HttpQueryError(400, "Variables are invalid JSON.", None))
         ELSE Return(json_loads(variables.s).value)
    ELSE Return(variables)

\* A request item or the query-string defaults: a dict read with .get(), so an
\* absent key and a null value are both None.
Item(query, variables, operationName) ==
    [t |-> "mapping", query |-> query, variables |-> variables,
     operationName |-> operationName]

EmptyDict == Item(None, None, None)

get_graphql_params(data, query_data) ==
    LET query == Or(data.query, query_data.query)
        variables == Or(data.variables, query_data.variables)
        operation_name == Or(data.operationName, query_data.operationName)
        loaded == load_json_variables(variables)
    IN  IF loaded.raised THEN loaded
        ELSE Return(GraphQLParams(query, loaded.value, operation_name))

(***************************************************************************)
(* Result aggregation                                                      *)
(***************************************************************************)
\* format_graphql_error keeps the message (locations and path are absent).
default_format_error(error) ==
    IF error.cls = "GraphQLError"
    THEN [message |-> error.message, formatted_by |-> "format_graphql_error"]
    ELSE [message |-> error.message, formatted_by |-> "text_type"]

\* The response dict with key k set to v.
SetKey(response, k, v) == [x \in DOMAIN response \cup {k} |->
                              IF x = k THEN v ELSE response[x]]

EmptyResponse == [x \in {} |-> None]

\* data set whatever invalid says, the status decided by the errors.
format_execution_result_by_errors(execution_result) ==
    IF execution_result /= None
    THEN LET r1 == IF execution_result.errors /= <<>>
                   THEN SetKey(EmptyResponse, "errors",
                               [i \in 1..Len(execution_result.errors) |->
                                   default_format_error(execution_result.errors[i])])
                   ELSE EmptyResponse
         IN  GraphQLResponse(SetKey(r1, "data", execution_result.data),
                             IF execution_result.errors /= <<>> THEN 400 ELSE 200)
    ELSE GraphQLResponse(None, 200)

format_execution_result(execution_result) ==
    IF execution_result /= None
    THEN LET r1 == IF execution_result.errors /= <<>>
                   THEN SetKey(EmptyResponse, "errors",
                               [i \in 1..Len(execution_result.errors) |->
                                   default_format_error(execution_result.errors[i])])
                   ELSE EmptyResponse
         IN  IF execution_result.invalid
             THEN GraphQLResponse(r1, 400)
             ELSE GraphQLResponse(SetKey(r1, "data", execution_result.data), 200)
    ELSE GraphQLResponse(None, 200)

\* The status of the batch taken from its least item.
Min(S) == CHOOSE x \in S : \A y \in S : x <= y

\* Line 93: max(status_codes).
Max(S) == CHOOSE x \in S : \A y \in S : y <= x

\* json.dumps of one response (a dict or None): its JSON syntax tree.
JsonOfResponse(response) ==
    IF response = None THEN [json |-> "null"]
    ELSE [json |-> "object", members |-> response]

\* json_encode(data): json.dumps of a response or of a list of responses.
json_encode(data) ==
    IF "t" \in DOMAIN data /\ data.t = "list"
    THEN [json |-> "array",
          elements |-> [i \in 1..Len(data.xs) |-> JsonOfResponse(data.xs[i])]]
    ELSE JsonOfResponse(data)

\* The tuple kept whatever is_batch says.
ResultShapeAlwaysList(result, is_batch) == List(result)

\* Lines 95-96: result[0] of a non-batch request, the whole tuple of a batch.
ResultShape(result, is_batch) ==
    IF ~is_batch THEN result[1] ELSE List(result)

\* Line 88-91: the GraphQLResponse of each execution result.
FormatAll(execution_results) ==
    [i \in 1..Len(execution_results) |->
        format_execution_result(execution_results[i])]

\* Lines 92-98 on the list of responses.
encode_execution_results(responses, is_batch) ==
    LET result == [i \in 1..Len(responses) |-> responses[i].result]
        status_codes == {responses[i].status_code : i \in 1..Len(responses)}
        status_code == Max(status_codes)
    IN  [body |-> json_encode(ResultShape(result, is_batch)),
         status_code |-> status_code]

(***************************************************************************)
(* run_http_query: validation of the request                               *)
(***************************************************************************)
\* 'GraphQL params should be a dict. Received {}.'.format(data)
ParamsShouldBeDict(data) ==
    IF data.t = "none"
    THEN "GraphQL params should be a dict. Received None."
    ELSE "GraphQL params should be a dict. Received junk."

\* Any method let through.
MethodAllowedAlways(request_method) == TRUE

\* Line 31: request_method in ('get', 'post').
MethodAllowed(request_method) == request_method \in {"get", "post"}

\* A list accepted whatever batch_enabled says.
BatchRefusedNever(data, batch_enabled) == FALSE

\* Lines 48 and 55: a list body while batch_enabled is false.
BatchRefused(data, batch_enabled) == data.t = "list" /\ ~batch_enabled

\* An empty list let through.
NoItemsNever(items) == FALSE

\* Line 61: not data.
NoItems(items) == items = <<>>

\* Lines 31-65: the error the request is rejected with, or the list of items.
RequestItems(request_method, data, batch_enabled) ==
    IF ~MethodAllowed(request_method)
    THEN Raise(HttpQueryError(405, "GraphQL only supports GET and POST requests.",
                              [Allow |-> "GET, POST"]))
    ELSE IF data.t /= "list" /\ data.t /= "mapping"
    THEN Raise(HttpQueryError(400, ParamsShouldBeDict(data), None))
    ELSE IF BatchRefused(data, batch_enabled)
    THEN Raise(HttpQueryError(400, "Batch GraphQL requests are not enabled.", None))
    ELSE LET items == IF data.t = "list" THEN data.xs ELSE <<data>>
         IN  IF NoItems(items)
             THEN Raise(HttpQueryError(400,
                            "Received an empty list in the batch request.", None))
             ELSE Return(items)

\* Lines 39-42: the exception class get_response catches.
CatchClass(catch) == IF catch THEN "HttpQueryError" ELSE "SkipException"

\* The query-string defaults given to batch items too.
ExtraDataAlways(data, query_data) == Or(query_data, EmptyDict)

\* Lines 67-70: the query-string defaults go to a non-batch request only.
ExtraData(data, query_data) ==
    IF data.t /= "list" THEN Or(query_data, EmptyDict) ELSE EmptyDict

\* Line 72: the list comprehension stops at the first item whose extraction
\* raises.
RECURSIVE ParamsFrom(_, _, _, _)
ParamsFrom(items, extra_data, i, acc) ==
    IF i > Len(items) THEN Return(acc)
    ELSE LET p == get_graphql_params(items[i], extra_data)
         IN  IF p.raised THEN p
             ELSE ParamsFrom(items, extra_data, i + 1, Append(acc, p.value))

AllParams(items, extra_data) == ParamsFrom(items, extra_data, 1, <<>>)

(***************************************************************************)
(* execute_graphql_request and get_response                                *)
(***************************************************************************)
OnlyPost(operation) ==
    IF operation = "mutation"
    THEN "Can only perform a mutation operation from a POST request."
    ELSE "Can only perform a subscription operation from a POST request."

\* parse and validate outside any try: a syntax error propagates.
ParseAndValidateUnguarded(params) ==
    LET parsed == parse(params.query.s)
    IN  IF parsed.raised
        THEN [end |-> parsed, calls |-> <<"parse">>]
        ELSE [end |-> [raised |-> FALSE, awaits |-> parsed.value],
              calls |-> <<"parse", "validate">>]

\* Lines 169-179: parse and validate inside the try: a failure of either and
\* a non-empty list of validation errors end the request with an invalid
\* result; otherwise the document goes on.
ParseAndValidate(params) ==
    LET parsed == parse(params.query.s)
    IN  IF parsed.raised
        THEN [end |-> Return(ExecutionResult(None, <<parsed.exc>>, TRUE)),
              calls |-> <<"parse">>]
        ELSE IF validate(parsed.value) /= <<>>
        THEN [end |-> Return(ExecutionResult(None, validate(parsed.value), TRUE)),
              calls |-> <<"parse", "validate">>]
        ELSE [end |-> [raised |-> FALSE, awaits |-> parsed.value],
              calls |-> <<"parse", "validate">>]

\* The check of the operation kind left out.
OperationKindUnchecked(ast, params, allow_only_query) ==
    [end |-> [raised |-> FALSE, awaits |-> ast], calls |-> <<"execute">>]

\* On GET, a document holding any operation that is not a query is refused.
OperationKindCheckAnyMutation(ast, params, allow_only_query) ==
    IF allow_only_query
    THEN IF \E k \in DOMAIN ast.definitions :
                ast.definitions[k].operation /= "query"
         THEN [end |-> Raise(HttpQueryError(405,
                   OnlyPost(ast.definitions[CHOOSE k \in DOMAIN ast.definitions :
                       ast.definitions[k].operation /= "query"].operation),
                   [Allow |-> <<"POST">>])),
               calls |-> <<"get_operation_ast">>]
         ELSE [end |-> [raised |-> FALSE, awaits |-> ast],
               calls |-> <<"get_operation_ast", "execute">>]
    ELSE [end |-> [raised |-> FALSE, awaits |-> ast], calls |-> <<"execute">>]

\* Lines 181-190: on GET, an operation that is selected and is not a query is
\* refused.
OperationKindCheck(ast, params, allow_only_query) ==
    IF allow_only_query
    THEN LET operation_ast == get_operation_ast(ast, params.operation_name)
         IN  IF operation_ast /= None /\ operation_ast.operation /= "query"
             THEN [end |-> Raise(HttpQueryError(405, OnlyPost(operation_ast.operation),
                                                [Allow |-> <<"POST">>])),
                   calls |-> <<"get_operation_ast">>]
             ELSE [end |-> [raised |-> FALSE, awaits |-> ast],
                   calls |-> <<"get_operation_ast", "execute">>]
    ELSE [end |-> [raised |-> FALSE, awaits |-> ast], calls |-> <<"execute">>]

\* The query refused only when it is None: an empty string goes to parse.
BeforeExecuteNoneOnly(params, allow_only_query) ==
    IF params.query = None
    THEN [end |-> Raise(HttpQueryError(400, "Must provide query string.", None)),
          calls |-> <<>>]
    ELSE LET validated == ParseAndValidate(params)
         IN  IF "awaits" \notin DOMAIN validated.end THEN validated
             ELSE LET checked == OperationKindCheck(validated.end.awaits, params,
                                                    allow_only_query)
                  IN  [end |-> checked.end,
                       calls |-> validated.calls \o checked.calls]

\* The operation kind checked on the parsed document, before validation.
BeforeExecuteCheckFirst(params, allow_only_query) ==
    IF ~Truthy(params.query)
    THEN [end |-> Raise(HttpQueryError(400, "Must provide query string.", None)),
          calls |-> <<>>]
    ELSE LET parsed == parse(params.query.s)
             early == OperationKindCheck(parsed.value, params, allow_only_query)
             validated == ParseAndValidate(params)
         IN  IF ~parsed.raised /\ early.end.raised
             THEN [end |-> early.end, calls |-> <<"parse">> \o early.calls]
             ELSE IF "awaits" \notin DOMAIN validated.end THEN validated
             ELSE [end |-> early.end, calls |-> validated.calls \o early.calls]

\* Lines 166-193, the synchronous part of execute_graphql_request: how it ends
\* (raise, return, or reach the await of execute) and the library calls it
\* made.
BeforeExecute(params, allow_only_query) ==
    IF ~Truthy(params.query)
    THEN [end |-> Raise(HttpQueryError(400, "Must provide query string.", None)),
          calls |-> <<>>]
    ELSE LET validated == ParseAndValidate(params)
         IN  IF "awaits" \notin DOMAIN validated.end THEN validated
             ELSE LET checked == OperationKindCheck(validated.end.awaits, params,
                                                    allow_only_query)
                  IN  [end |-> checked.end,
                       calls |-> validated.calls \o checked.calls]

\* An except clause for GraphQLError alone.
AfterExecuteNarrow(executed) ==
    IF executed.raised /\ executed.exc.cls = "GraphQLError"
    THEN Return(ExecutionResult(None, <<executed.exc>>, TRUE))
    ELSE executed

\* Lines 192-202: what execute_graphql_request makes of the end of the awaited
\* execute call.
AfterExecute(executed) ==
    IF executed.raised /\ IsException(executed.exc)
    THEN Return(ExecutionResult(None, <<executed.exc>>, TRUE))
    ELSE executed

\* get_response without its except clause.
get_response_uncaught(ended, catch_class) == ended

\* Lines 131-141: get_response around the end of execute_graphql_request.
get_response(ended, catch_class) ==
    IF ended.raised /\ ended.exc.cls = catch_class THEN Return(None) ELSE ended

(***************************************************************************)
(* The requests of the model                                               *)
(***************************************************************************)
Methods == {"get", "post", "put"}

\* Items of every kind the pipeline tells apart, sent as a non-batch body.
Items ==
    { Item(q, None, None) : q \in {None, Str("")} \cup {Str(t) : t \in QueryTexts} }
    \cup { Item(Str(QueryA), v, None) :
             v \in {Dict(<<>>), Dict(<< <<"a", 1>> >>), Str(""), Str(JsonA),
                    Str(JsonEmpty), Str(JsonOne), Str(JsonBad)} }
    \cup { Item(Str(QueryAB), None, o) : o \in {Str("A"), Str("B"), Str("Z")} }

\* The items batches are made of.
BatchItems ==
    { Item(None, None, None), Item(Str(QuerySyntax), None, None),
      Item(Str(QueryNoField), None, None), Item(Str(QueryA), None, None),
      Item(Str(QueryM), None, None), Item(Str(QueryA), Str(JsonBad), None),
      Item(Str(QueryAB), None, Str("B")) }

RECURSIVE SeqsUpTo(_, _)
SeqsUpTo(S, n) ==
    IF n = 0 THEN {<<>>}
    ELSE SeqsUpTo(S, n - 1)
         \cup {Append(xs, x) : xs \in {ys \in SeqsUpTo(S, n - 1) : Len(ys) = n - 1},
                               x \in S}

Bodies ==
    Items \cup {List(xs) : xs \in SeqsUpTo(BatchItems, MaxBatch)}
          \cup {None, Str("junk")}

\* The query-string defaults: none, a full set, and a set of empty strings.
QueryDatas ==
    {None, Item(Str(QueryM), Dict(<< <<"b", 2>> >>), Str("B")),
     Item(Str(""), Str(""), Str(""))}

(***************************************************************************)
(* The state: one call of run_http_query on an asyncio event loop, and     *)
(* the caller's encode_execution_results on what it returns                *)
(***************************************************************************)
VARIABLES
    request_method, data, query_data, batch_enabled, catch, \* the arguments
    pc,         \* run_http_query: "start", "awaiting", "returned", "raised"
    all_params, \* line 72
    task,       \* the get_response task of each item
    calls,      \* the library calls each item's pipeline made, in order
    ready,      \* the event loop's queue of callbacks
    finished,   \* gather: the children that finished, in completion order
    outer,      \* gather: the future run_http_query awaits
    responses,  \* the responses run_http_query returned
    error,      \* the exception run_http_query raised
    formatted,  \* encode_execution_results: its list of GraphQLResponse
    encoded     \* what encode_execution_results returned

args == <<request_method, data, query_data, batch_enabled, catch>>
vars == <<request_method, data, query_data, batch_enabled, catch, pc, all_params,
          task, calls, ready, finished, outer, responses, error, formatted,
          encoded>>

Init ==
    /\ request_method \in Methods
    /\ data \in Bodies
    /\ query_data \in QueryDatas
    /\ batch_enabled \in BOOLEAN
    /\ catch \in BOOLEAN
    /\ pc = "start"
    /\ all_params = <<>>
    /\ task = <<>>
    /\ calls = <<>>
    /\ ready = <<>>
    /\ finished = <<>>
    /\ outer = [st |-> "pending"]
    /\ responses = None
    /\ error = None
    /\ formatted = <<>>
    /\ encoded = None

Step(i) == [k |-> "step", i |-> i]
DoneCallbackOf(i) == [k |-> "done_callback", i |-> i]
WakeUp == [k |-> "wakeup", i |-> 0]

allow_only_query == request_method = "get"

\* Lines 30-82: run_http_query up to its await: it raises, or it starts one
\* get_response task per item (gather) and suspends.
RunHttpQuery ==
    /\ pc = "start"
    /\ LET items == RequestItems(request_method, data, batch_enabled)
           params == IF items.raised THEN items
                     ELSE AllParams(items.value, ExtraData(data, query_data))
       IN  IF params.raised
           THEN /\ pc' = "raised"
                /\ error' = params.exc
                /\ UNCHANGED <<all_params, task, calls, ready>>
           ELSE /\ pc' = "awaiting"
                /\ all_params' = params.value
                /\ task' = [i \in 1..Len(params.value) |-> [st |-> "scheduled"]]
                /\ calls' = [i \in 1..Len(params.value) |-> <<>>]
                /\ ready' = [i \in 1..Len(params.value) |-> Step(i)]
                /\ UNCHANGED error
    /\ UNCHANGED <<args, finished, outer, responses, formatted, encoded>>

\* The task of item i finishes: `executed` is how its execute call ended (None
\* without one), `request_end` how execute_graphql_request ended, `end` how
\* get_response did.  Its done callback is scheduled.
Finish(i, executed, request_end) ==
    /\ task' = [task EXCEPT ![i] =
                   [st |-> "done", executed |-> executed, request_end |-> request_end,
                    end |-> get_response(request_end, CatchClass(catch))]]
    /\ ready' = Append(Tail(ready), DoneCallbackOf(i))

\* The first step of the task of item i: get_response runs
\* execute_graphql_request up to the await of execute, which ends at once or
\* suspends the task.
TaskStart(i) ==
    /\ ready /= <<>> /\ Head(ready) = Step(i)
    /\ task[i].st = "scheduled"
    /\ LET before == BeforeExecute(all_params[i], allow_only_query)
       IN  /\ calls' = [calls EXCEPT ![i] = before.calls]
           /\ IF "awaits" \in DOMAIN before.end
              THEN \/ \E executed \in ExecuteOutcomes(before.end.awaits,
                                         all_params[i].operation_name,
                                         all_params[i].variables) :
                        Finish(i, executed, AfterExecute(executed))
                   \/ /\ task' = [task EXCEPT ![i] = [st |-> "suspended"]]
                      /\ ready' = Tail(ready)
              ELSE Finish(i, None, before.end)
    /\ UNCHANGED <<args, pc, all_params, finished, outer, responses, error, formatted,
                   encoded>>

\* The I/O the execute call of item i waits for completes: the task is
\* scheduled again.
ExecuteIOCompletes(i) ==
    /\ i \in DOMAIN task
    /\ task[i].st = "suspended"
    /\ task' = [task EXCEPT ![i] = [st |-> "woken"]]
    /\ ready' = Append(ready, Step(i))
    /\ UNCHANGED <<args, pc, all_params, calls, finished, outer, responses, error,
                   formatted, encoded>>

\* The task of item i resumes: the awaited execute returns or raises.
TaskResume(i) ==
    /\ ready /= <<>> /\ Head(ready) = Step(i)
    /\ task[i].st = "woken"
    /\ \E executed \in ExecuteOutcomes(parse(all_params[i].query.s).value,
                                       all_params[i].operation_name,
                                       all_params[i].variables) :
          Finish(i, executed, AfterExecute(executed))
    /\ UNCHANGED <<args, pc, all_params, calls, finished, outer, responses, error,
                   formatted, encoded>>

\* The results appended as the children complete.
GatherResultsOnCompletion(tasks, completion) ==
    [k \in 1..Len(completion) |-> tasks[completion[k]].end.value]

\* The result list of gather: the children's results in the order of the
\* children.
GatherResults(tasks, completion) ==
    [i \in 1..Len(tasks) |-> tasks[i].end.value]

\* The callback of a gather that drops the exception of a failed child
\* instead of handing it to the outer future.
DoneCallbackDropsFailure(i) ==
    /\ ready /= <<>> /\ Head(ready) = DoneCallbackOf(i)
    /\ IF outer.st /= "pending" \/ task[i].end.raised
       THEN /\ ready' = Tail(ready)
            /\ UNCHANGED <<finished, outer>>
       ELSE /\ finished' = Append(finished, i)
            /\ IF Len(finished) + 1 = Len(task)
               THEN /\ outer' = [st |-> "result",
                                 value |-> GatherResults(task, Append(finished, i))]
                    /\ ready' = Append(Tail(ready), WakeUp)
               ELSE /\ ready' = Tail(ready)
                    /\ UNCHANGED outer
    /\ UNCHANGED <<args, pc, all_params, task, calls, responses, error, formatted,
                   encoded>>

\* asyncio.gather's callback on the completion of child i (return_exceptions
\* is False): the first exception goes to the outer future at once, the
\* results once every child has finished.
DoneCallback(i) ==
    /\ ready /= <<>> /\ Head(ready) = DoneCallbackOf(i)
    /\ IF outer.st /= "pending"
       THEN /\ ready' = Tail(ready)
            /\ UNCHANGED <<finished, outer>>
       ELSE IF task[i].end.raised
       THEN /\ outer' = [st |-> "exception", exc |-> task[i].end.exc]
            /\ ready' = Append(Tail(ready), WakeUp)
            /\ UNCHANGED finished
       ELSE /\ finished' = Append(finished, i)
            /\ IF Len(finished) + 1 = Len(task)
               THEN /\ outer' = [st |-> "result",
                                 value |-> GatherResults(task, Append(finished, i))]
                    /\ ready' = Append(Tail(ready), WakeUp)
               ELSE /\ ready' = Tail(ready)
                    /\ UNCHANGED outer
    /\ UNCHANGED <<args, pc, all_params, task, calls, responses, error, formatted,
                   encoded>>

\* Lines 82-84: run_http_query resumes with the outcome of gather.
Resume ==
    /\ ready /= <<>> /\ Head(ready) = WakeUp
    /\ pc = "awaiting"
    /\ ready' = Tail(ready)
    /\ IF outer.st = "exception"
       THEN /\ pc' = "raised"
            /\ error' = outer.exc
            /\ UNCHANGED responses
       ELSE /\ pc' = "returned"
            /\ responses' = outer.value
            /\ UNCHANGED error
    /\ UNCHANGED <<args, all_params, task, calls, finished, outer, formatted, encoded>>

\* The caller encodes what run_http_query returned, is_batch being
\* isinstance(data, list).
Encode ==
    /\ pc = "returned"
    /\ encoded = None
    /\ formatted' = FormatAll(responses)
    /\ encoded' = encode_execution_results(FormatAll(responses), data.t = "list")
    /\ UNCHANGED <<args, pc, all_params, task, calls, ready, finished, outer,
                   responses, error>>

Next ==
    \/ RunHttpQuery
    \/ \E i \in DOMAIN task : TaskStart(i)
    \/ \E i \in DOMAIN task : ExecuteIOCompletes(i)
    \/ \E i \in DOMAIN task : TaskResume(i)
    \/ \E i \in DOMAIN task : DoneCallback(i)
    \/ Resume
    \/ Encode

Spec == Init /\ [][Next]_vars

\* Spec under the scheduling the claims about termination assume: the call of
\* run_http_query is made, the event loop keeps running the callback at the
\* head of its queue, and the I/O of every execute call completes.
FairSpec ==
    /\ Spec
    /\ WF_vars(RunHttpQuery)
    /\ WF_vars(\/ \E i \in DOMAIN task :
                     TaskStart(i) \/ TaskResume(i) \/ DoneCallback(i)
                \/ Resume)
    /\ \A i \in 1..MaxBatch : WF_vars(ExecuteIOCompletes(i))

(***************************************************************************)
(* Vocabulary of the properties                                            *)
(***************************************************************************)
Range(f) == {f[x] : x \in DOMAIN f}

\* The items of the request body, in order.
InputItems == IF data.t = "list" THEN data.xs ELSE <<data>>

\* The task of item i has run to its end.
Done(i) == task[i].st = "done"

\* The operations operationName selects in a document: the one of that name,
\* or without a name the document's only operation.
Selected(definitions, operation_name) ==
    IF Truthy(operation_name)
    THEN {d \in Range(definitions) : d.name = operation_name}
    ELSE IF Len(definitions) = 1 THEN {definitions[1]} ELSE {}

\* The query of item i parses and validates.
WellFormed(i) ==
    /\ Truthy(all_params[i].query)
    /\ ~parse(all_params[i].query.s).raised
    /\ validate(parse(all_params[i].query.s).value) = <<>>

\* Item i targets a mutation or a subscription.
TargetsNonQuery(i) ==
    /\ WellFormed(i)
    /\ \E d \in Selected(parse(all_params[i].query.s).value.definitions,
                         all_params[i].operation_name) : d.operation /= "query"

\* The pipeline of item i raises a TransportError: its query is empty, or the
\* request is a GET and the item targets a non-query operation.
HardFails(i) ==
    \/ all_params[i].query \in {None, Str("")}
    \/ request_method = "get" /\ TargetsNonQuery(i)

\* The errors of an item whose query does not parse or does not validate.
SoftErrors(i) ==
    IF parse(all_params[i].query.s).raised
    THEN <<parse(all_params[i].query.s).exc>>
    ELSE validate(parse(all_params[i].query.s).value)

\* The outcome of item i taken alone: decided by its own parameters and by
\* what the executor answered to it.
OwnOutcome(i) ==
    IF HardFails(i) THEN None
    ELSE IF ~WellFormed(i) THEN ExecutionResult(None, SoftErrors(i), TRUE)
    ELSE IF task[i].executed.raised
    THEN ExecutionResult(None, <<task[i].executed.exc>>, TRUE)
    ELSE task[i].executed.value

(***************************************************************************)
(* C1: with catch=True, once an item's pipeline raises a TransportError    *)
(* (empty query, or a non-query operation on GET) run_http_query does not  *)
(* raise; in the responses it returns exactly the slots of such items are  *)
(* None and every other slot holds that item's own outcome.                *)
(***************************************************************************)
C1_SuppressIsolatesItem ==
    (catch /\ \E i \in DOMAIN all_params : HardFails(i))
    => /\ pc /= "raised"
       /\ pc = "returned" =>
            /\ Len(responses) = Len(all_params)
            /\ \A j \in DOMAIN all_params :
                 /\ (responses[j] = None) <=> HardFails(j)
                 /\ responses[j] = OwnOutcome(j)

\* A returned batch with a suppressed item beside a sibling that executed.
C1_Witness ==
    /\ catch /\ pc = "returned" /\ Len(all_params) = 2
    /\ HardFails(2) /\ responses[2] = None
    /\ ~HardFails(1) /\ responses[1] /= None /\ ~responses[1].invalid

(***************************************************************************)
(* C2: with batch_enabled=True and catch=True, no error of a single item   *)
(* of a non-empty batch (the invalid variables JSON of an item included)   *)
(* makes run_http_query raise.                                             *)
(***************************************************************************)
C2_ItemErrorNeverAbortsBatch ==
    (batch_enabled /\ catch /\ request_method \in {"get", "post"}
       /\ data.t = "list" /\ data.xs /= <<>>)
    => pc /= "raised"

(***************************************************************************)
(* C3: with catch=False, when run_http_query has raised no item's task is  *)
(* still outstanding (scheduled, or suspended in the execute call).        *)
(***************************************************************************)
C3_NoTaskOutlivesAbort ==
    (~catch /\ pc = "raised") => \A i \in DOMAIN task : Done(i)

(***************************************************************************)
(* C4: the responses run_http_query returns are as many as the items of    *)
(* the body, and slot i holds the outcome of item i, whatever the order    *)
(* the tasks completed in.                                                 *)
(***************************************************************************)
C4_ResponsesInInputOrder ==
    pc = "returned"
    => /\ Len(responses) = Len(InputItems)
       /\ Len(all_params) = Len(InputItems)
       /\ \A i \in DOMAIN responses :
            /\ responses[i] = task[i].end.value
            /\ responses[i] = OwnOutcome(i)
            /\ Truthy(InputItems[i].query) => all_params[i].query = InputItems[i].query

\* Two different items returned in order although the second completed first.
C4_Witness ==
    /\ pc = "returned" /\ finished = <<2, 1>>
    /\ responses[1] /= responses[2]
    /\ responses[1] /= None /\ responses[2] /= None

(***************************************************************************)
(* C5: on GET, an item whose query parses and validates and that targets   *)
(* a mutation or subscription ends execute_graphql_request by raising      *)
(* HttpQueryError 405 with Allow: POST, and execute is not called for it.  *)
(***************************************************************************)
C5_GetRefusesNonQuery ==
    \A i \in DOMAIN task :
        (request_method = "get" /\ Done(i) /\ TargetsNonQuery(i))
        => /\ task[i].request_end.raised
           /\ task[i].request_end.exc.cls = "HttpQueryError"
           /\ task[i].request_end.exc.status_code = 405
           /\ task[i].request_end.exc.headers = [Allow |-> <<"POST">>]
           /\ "execute" \notin Range(calls[i])
           /\ task[i].executed = None

\* A GET item naming the mutation B of a two-operation document was refused.
C5_Witness ==
    /\ request_method = "get"
    /\ \E i \in DOMAIN task :
         /\ Done(i) /\ TargetsNonQuery(i)
         /\ all_params[i].operation_name = Str("B")
         /\ task[i].request_end.raised

(***************************************************************************)
(* C6: for an item with a non-empty query, a parse failure or a non-empty  *)
(* list of validation errors ends execute_graphql_request by returning an  *)
(* ExecutionResult with invalid=True and those errors, not by raising, and *)
(* execute is not called for the item, on GET and on POST.                 *)
(***************************************************************************)
C6_LanguageErrorsAreSoft ==
    \A i \in DOMAIN task :
        (Done(i) /\ Truthy(all_params[i].query) /\ ~WellFormed(i))
        => /\ ~task[i].request_end.raised
           /\ task[i].request_end.value = ExecutionResult(None, SoftErrors(i), TRUE)
           /\ task[i].end = task[i].request_end
           /\ "execute" \notin Range(calls[i])
           /\ task[i].executed = None

\* On GET an unparsable item and an item with two validation errors both ended
\* with an invalid result.
C6_Witness ==
    /\ request_method = "get" /\ Len(task) = 2 /\ Done(1) /\ Done(2)
    /\ all_params[1].query = Str(QuerySyntax)
    /\ all_params[2].query = Str(QueryNoField)
    /\ task[1].request_end.value.invalid
    /\ task[2].request_end.value.errors = validate(parse(QueryNoField).value)

(***************************************************************************)
(* C7: an exception raised by the execute call, an HttpQueryError          *)
(* included, becomes ExecutionResult(errors=[e], invalid=True): it does    *)
(* not leave execute_graphql_request, it is not the error run_http_query   *)
(* raises, and the item's slot is that result and not None, with catch     *)
(* True or False.                                                          *)
(***************************************************************************)
C7_ExecuteExceptionsCaptured ==
    \A i \in DOMAIN task :
        (Done(i) /\ task[i].executed /= None /\ task[i].executed.raised)
        => /\ task[i].request_end =
                 Return(ExecutionResult(None, <<task[i].executed.exc>>, TRUE))
           /\ task[i].end = task[i].request_end
           /\ pc = "raised" => error /= task[i].executed.exc
           /\ pc = "returned" =>
                 responses[i] = ExecutionResult(None, <<task[i].executed.exc>>, TRUE)

\* With catch=True an HttpQueryError raised inside execute came back as the
\* item's invalid result.
C7_Witness ==
    /\ catch /\ pc = "returned"
    /\ \E i \in DOMAIN task :
         /\ task[i].executed /= None /\ task[i].executed.raised
         /\ task[i].executed.exc.cls = "HttpQueryError"
         /\ responses[i] /= None /\ responses[i].invalid

(***************************************************************************)
(* C8: the status code encode_execution_results returns is the maximum of  *)
(* the items' status codes: 400 if and only if some execution result has   *)
(* invalid=True, 200 otherwise (None slots and partial successes are 200). *)
(***************************************************************************)
C8_StatusIsMaximum ==
    encoded /= None
    => /\ \A i \in DOMAIN formatted : formatted[i].status_code <= encoded.status_code
       /\ \E i \in DOMAIN formatted : formatted[i].status_code = encoded.status_code
       /\ encoded.status_code =
             IF \E i \in DOMAIN responses : responses[i] /= None /\ responses[i].invalid
             THEN 400 ELSE 200

\* A batch of a valid first item and an invalid second one is 400.
C8_Witness ==
    /\ encoded /= None /\ Len(responses) = 2
    /\ responses[1] /= None /\ ~responses[1].invalid
    /\ responses[2] /= None /\ responses[2].invalid
    /\ encoded.status_code = 400

(***************************************************************************)
(* C9: format_execution_result gives (None, 200) for None; for a result    *)
(* with invalid=True a body with the formatted errors, without data, and   *)
(* 400; for a result with invalid=False a body with data, with errors      *)
(* exactly when the result has errors, and 200.  The body's errors are the *)
(* result's errors, formatted, in order.                                   *)
(***************************************************************************)
C9_FormatOfEachOutcome ==
    \A i \in DOMAIN formatted :
        LET r == responses[i]
            f == formatted[i]
        IN  IF r = None THEN f = GraphQLResponse(None, 200)
            ELSE /\ f.result /= None
                 /\ f.status_code = IF r.invalid THEN 400 ELSE 200
                 /\ r.invalid => "errors" \in DOMAIN f.result
                 /\ ("data" \in DOMAIN f.result) <=> ~r.invalid
                 /\ ~r.invalid => f.result["data"] = r.data
                 /\ ("errors" \in DOMAIN f.result) <=> (r.errors /= <<>>)
                 /\ r.errors /= <<>> =>
                      /\ Len(f.result["errors"]) = Len(r.errors)
                      /\ \A k \in DOMAIN r.errors :
                           f.result["errors"][k].message = r.errors[k].message

\* A partial success (data and two errors) beside an invalid result formatted.
C9_Witness ==
    /\ Len(formatted) = 2
    /\ responses[1] /= None /\ ~responses[1].invalid /\ Len(responses[1].errors) = 2
    /\ responses[2] /= None /\ responses[2].invalid
    /\ DOMAIN formatted[1].result = {"data", "errors"}
    /\ DOMAIN formatted[2].result = {"errors"}

(***************************************************************************)
(* C10: the encoded body has the shape of the request body: for a          *)
(* non-list body it is the only item's body, not an array; for a list it   *)
(* is the array of the items' bodies, as long as the list and in its       *)
(* order, None bodies kept as null (one item gives a one-element array).   *)
(***************************************************************************)
C10_BodyShapeFollowsInput ==
    encoded /= None
    => IF data.t = "list"
       THEN /\ encoded.body.json = "array"
            /\ Len(encoded.body.elements) = Len(data.xs)
            /\ \A i \in DOMAIN data.xs :
                 /\ encoded.body.elements[i] = JsonOfResponse(formatted[i].result)
                 /\ (responses[i] = None) <=> (encoded.body.elements[i].json = "null")
       ELSE /\ encoded.body.json /= "array"
            /\ Len(formatted) = 1
            /\ encoded.body = JsonOfResponse(formatted[1].result)

\* A batch of one item encoded as a one-element array.
C10_Witness ==
    /\ encoded /= None /\ data.t = "list" /\ Len(data.xs) = 1
    /\ encoded.body.json = "array" /\ Len(encoded.body.elements) = 1
    /\ encoded.body.elements[1].json = "object"

(***************************************************************************)
(* C11: for a list body, a batch of one item included, the parameters of   *)
(* each item come from the item alone, whatever query_data holds: a field  *)
(* the item leaves out or empty is None, never the query-string default.   *)
(***************************************************************************)
C11_BatchIgnoresQueryData ==
    (data.t = "list" /\ all_params /= <<>>)
    => /\ Len(all_params) = Len(data.xs)
       /\ \A i \in DOMAIN all_params :
            /\ all_params[i].query =
                 IF Truthy(data.xs[i].query) THEN data.xs[i].query ELSE None
            /\ all_params[i].operation_name =
                 IF Truthy(data.xs[i].operationName) THEN data.xs[i].operationName
                 ELSE None
            /\ ~Truthy(data.xs[i].variables) => all_params[i].variables = None

\* A batch of one item without a query, sent with query-string defaults that
\* hold a query, kept no query.
C11_Witness ==
    /\ data.t = "list" /\ Len(data.xs) = 1 /\ data.xs[1].query = None
    /\ query_data /= None /\ query_data.query = Str(QueryM)
    /\ Len(all_params) = 1 /\ all_params[1].query = None
    /\ all_params[1].operation_name = None

\* The query-string defaults of the request, {} when there are none.
Defaults == IF query_data = None THEN EmptyDict ELSE query_data

(***************************************************************************)
(* C12: in get_graphql_params each of query, variables and operationName   *)
(* is the item's own value whenever the item has one (is not None), and    *)
(* the default only when the item has none; variables that are a mapping,  *)
(* the empty mapping included, stay as the item gave them.                 *)
(***************************************************************************)
C12_OwnValueWinsOverDefault ==
    (data.t = "mapping" /\ all_params /= <<>>)
    => /\ all_params[1].query =
            IF data.query /= None THEN data.query ELSE Defaults.query
       /\ all_params[1].operation_name =
            IF data.operationName /= None THEN data.operationName
            ELSE Defaults.operationName
       /\ data.variables.t = "dict" => all_params[1].variables = data.variables

\* The request passed the checks of lines 31-65 and its items were read.
Accepted ==
    pc /= "start" /\ ~RequestItems(request_method, data, batch_enabled).raised

\* The variables get_graphql_params resolves for item i, before any decoding:
\* the item's own, or else those of the defaults (non-batch requests only).
ResolvedVariables(i) ==
    IF Truthy(InputItems[i].variables) THEN InputItems[i].variables
    ELSE IF data.t = "list" THEN None ELSE Defaults.variables

InvalidJson == HttpQueryError(400, "Variables are invalid JSON.", None)

(***************************************************************************)
(* C13, as claimed: whenever the resolved variables are a string, the      *)
(* empty string included, they are JSON-decoded: on success the params     *)
(* hold the decoded value, on failure run_http_query raises 400 'Variables *)
(* are invalid JSON.' and no item is parsed, validated or executed.        *)
(***************************************************************************)
C13_EveryStringDecoded ==
    Accepted
    => /\ (\E i \in DOMAIN InputItems :
              /\ ResolvedVariables(i).t = "str"
              /\ json_loads(ResolvedVariables(i).s).raised)
          => (pc = "raised" /\ error = InvalidJson /\ task = <<>> /\ calls = <<>>)
       /\ all_params /= <<>> =>
            \A i \in DOMAIN InputItems :
                ResolvedVariables(i).t = "str" =>
                    all_params[i].variables = json_loads(ResolvedVariables(i).s).value

(***************************************************************************)
(* C13, amended: whenever the resolved variables are a non-empty string    *)
(* they are JSON-decoded: on success the params hold the decoded value, on *)
(* failure run_http_query raises 400 'Variables are invalid JSON.' and no  *)
(* item is parsed, validated or executed.  An empty string is not decoded  *)
(* and stays the variables.                                                *)
(***************************************************************************)
C13_NonEmptyStringDecoded ==
    Accepted
    => /\ (\E i \in DOMAIN InputItems :
              /\ ResolvedVariables(i).t = "str" /\ ResolvedVariables(i).s /= ""
              /\ json_loads(ResolvedVariables(i).s).raised)
          => (pc = "raised" /\ error = InvalidJson /\ task = <<>> /\ calls = <<>>)
       /\ all_params /= <<>> =>
            \A i \in DOMAIN InputItems :
                ResolvedVariables(i).t = "str" =>
                    all_params[i].variables =
                        IF ResolvedVariables(i).s = "" THEN Str("")
                        ELSE json_loads(ResolvedVariables(i).s).value

\* A batch whose second item has malformed variables was refused before its
\* first, valid item was parsed.
C13_Witness ==
    /\ Accepted /\ data.t = "list" /\ Len(data.xs) = 2
    /\ data.xs[1] = Item(Str(QueryA), None, None)
    /\ data.xs[2].variables = Str(JsonBad)
    /\ pc = "raised" /\ error = InvalidJson /\ task = <<>>

(***************************************************************************)
(* C14: an item whose resolved query is None or the empty string ends      *)
(* execute_graphql_request with HttpQueryError 400 'Must provide query     *)
(* string.' without any call of parse, validate or execute; parse is only  *)
(* ever called with a non-empty query.                                     *)
(***************************************************************************)
C14_EmptyQueryRefusedBeforeParse ==
    \A i \in DOMAIN task :
        /\ (Done(i) /\ all_params[i].query \in {None, Str("")})
           => /\ task[i].request_end =
                    Raise(HttpQueryError(400, "Must provide query string.", None))
              /\ calls[i] = <<>>
              /\ task[i].executed = None
        /\ "parse" \in Range(calls[i])
           => (all_params[i].query.t = "str" /\ all_params[i].query.s /= "")

\* An item whose query resolved to the empty string was refused.
C14_Witness ==
    \E i \in DOMAIN task :
        /\ Done(i) /\ all_params[i].query = Str("")
        /\ task[i].request_end.raised /\ calls[i] = <<>>

(***************************************************************************)
(* C15 as stated: whenever data is an array and batching is not enabled,   *)
(* run_http_query fails with HttpQueryError 400 and the message "Batch     *)
(* requests are not enabled.", also for the empty array, and no item is    *)
(* extracted, parsed, validated or executed.                               *)
(***************************************************************************)
C15_BatchDisabledMessage ==
    (pc /= "start" /\ data.t = "list" /\ ~batch_enabled)
    => /\ pc = "raised"
       /\ error = HttpQueryError(400, "Batch requests are not enabled.", None)
       /\ all_params = <<>> /\ task = <<>> /\ calls = <<>>

(***************************************************************************)
(* C15 amended: when the method is get or post, data is an array (empty    *)
(* or not) and batching is not enabled, run_http_query fails with          *)
(* HttpQueryError 400 and the message 'Batch GraphQL requests are not      *)
(* enabled.', and no item is extracted, parsed, validated or executed.     *)
(***************************************************************************)
C15_BatchDisabledRefused ==
    (pc /= "start" /\ MethodAllowed(request_method)
        /\ data.t = "list" /\ ~batch_enabled)
    => /\ pc = "raised"
       /\ error = HttpQueryError(400, "Batch GraphQL requests are not enabled.",
                                 None)
       /\ all_params = <<>> /\ task = <<>> /\ calls = <<>>

\* An empty array was refused for batching, not for being empty.
C15_Witness ==
    /\ pc = "raised" /\ request_method = "post"
    /\ data = List(<<>>) /\ ~batch_enabled
    /\ error.status_code = 400

C17_MethodCheckFirst ==
    (pc /= "start" /\ request_method \notin {"get", "post"})
    => /\ pc = "raised"
       /\ error = HttpQueryError(405,
                     "GraphQL only supports GET and POST requests.",
                     [Allow |-> "GET, POST"])
       /\ all_params = <<>> /\ task = <<>> /\ calls = <<>>

\* A put request whose body and flags would fail other checks got 405.
C17_Witness ==
    /\ pc = "raised" /\ request_method = "put" /\ catch
    /\ data = List(<<>>) /\ ~batch_enabled /\ query_data /= None
    /\ error.status_code = 405

(***************************************************************************)
(* C18: the pipeline of an item goes through its stages in the order       *)
(* parse, validate, operation-kind check, execute, each at most once:      *)
(* validate is called only after parse succeeded, the operation-kind check *)
(* only on GET and only after validation returned no errors, execute only  *)
(* after every earlier stage passed; a GET item whose mutation does not    *)
(* parse or validate ends with an invalid result, not with 405.            *)
(***************************************************************************)
C18_StagesInOrder ==
    \A i \in DOMAIN task :
        LET called == Range(calls[i])
            query == all_params[i].query
        IN  /\ calls[i] \in { <<>>, <<"parse">>, <<"parse", "validate">>,
                              <<"parse", "validate", "get_operation_ast">>,
                              <<"parse", "validate", "execute">>,
                              <<"parse", "validate", "get_operation_ast",
                                "execute">> }
            /\ "validate" \in called => ~parse(query.s).raised
            /\ "get_operation_ast" \in called
               => (request_method = "get" /\ WellFormed(i))
            /\ "execute" \in called
               => /\ WellFormed(i)
                  /\ request_method = "get"
                     => ("get_operation_ast" \in called /\ ~TargetsNonQuery(i))
            /\ (Done(i) /\ task[i].executed /= None) => "execute" \in called
            /\ (Done(i) /\ Truthy(query) /\ ~WellFormed(i))
               => /\ task[i].request_end =
                        Return(ExecutionResult(None, SoftErrors(i), TRUE))
                  /\ "get_operation_ast" \notin called
                  /\ "execute" \notin called

\* A GET item whose mutation does not validate ended with an invalid result.
C18_Witness ==
    \E i \in DOMAIN task :
        /\ request_method = "get" /\ Done(i)
        /\ all_params[i].query = Str(QueryMNoField)
        /\ calls[i] = <<"parse", "validate">>
        /\ ~task[i].request_end.raised /\ task[i].request_end.value.invalid

(***************************************************************************)
(* C20: on GET, when operationName selects no operation of the parsed and  *)
(* validated document (no operation of that name, or no name and several   *)
(* operations), the operation-kind check raises nothing and the item goes  *)
(* on to the execute call, even if the document holds a mutation or a      *)
(* subscription; 405 is raised only when an operation is selected and is   *)
(* not a query.                                                            *)
(***************************************************************************)
C20_NoSelectionReachesExecute ==
    \A i \in DOMAIN task :
        LET definitions == parse(all_params[i].query.s).value.definitions
            selected == Selected(definitions, all_params[i].operation_name)
        IN  /\ (request_method = "get" /\ calls[i] /= <<>> /\ WellFormed(i)
                  /\ selected = {})
               => /\ calls[i] = <<"parse", "validate", "get_operation_ast",
                                  "execute">>
                  /\ Done(i) => /\ task[i].executed /= None
                                /\ ~task[i].request_end.raised
            /\ (Done(i) /\ task[i].request_end.raised
                  /\ task[i].request_end.exc.status_code = 405)
               => /\ request_method = "get" /\ WellFormed(i)
                  /\ \E d \in selected :
                        /\ d.operation /= "query"
                        /\ task[i].request_end.exc.message = OnlyPost(d.operation)

\* A GET item naming no operation of a document that holds a query and a
\* mutation was handed to execute.
C20_Witness ==
    \E i \in DOMAIN task :
        /\ request_method = "get" /\ Done(i)
        /\ all_params[i].query = Str(QueryAB)
        /\ all_params[i].operation_name \in {None, Str("Z")}
        /\ task[i].executed /= None

(***************************************************************************)
(* C19: run_http_query returns normally only after the pipeline of every   *)
(* item has ended, with one response per item and no slot pending; and,    *)
(* the loop running fairly and every execute call completing, every        *)
(* request eventually returns its responses or raises an HttpQueryError.   *)
(***************************************************************************)
C19_ReturnsAfterEveryItem ==
    /\ [](pc = "returned"
            => /\ Len(responses) = Len(task) /\ Len(task) = Len(all_params)
               /\ \A i \in DOMAIN task :
                    /\ Done(i) /\ ~task[i].end.raised
                    /\ responses[i] = task[i].end.value)
    /\ [](pc = "raised" => error.cls = "HttpQueryError")
    /\ <>(pc \in {"returned", "raised"})

\* A batch returned after the execute call of its first item had suspended
\* and the second item had already ended.
C19_Witness ==
    /\ pc = "returned" /\ Len(task) = 2 /\ finished = <<2, 1>>
    /\ Done(1) /\ Done(2) /\ task[1].executed /= None

====
